---------------------------- MODULE Spec2Model ----------------------------
(***************************************************************************)
(* Model of the serverless file/image handler:                             *)
(*   - FileRequestHandler (src/file-request-handler.js): setup,            *)
(*     parseFileBucket, parseFileKey, checkAccess, getOriginalFile,        *)
(*     process;                                                            *)
(*   - the dispatcher exports.handler and getResponseHeaders               *)
(*     (src/unnamed/part_000).                                             *)
(*                                                                         *)
(* JavaScript strings are sequences of UTF-16 code units (naturals).       *)
(* JavaScript values that the code inspects are records                    *)
(* [type, num, str]; objects are sequences of <<key, value>> pairs in      *)
(* insertion order.                                                        *)
(***************************************************************************)
EXTENDS Integers, Sequences, FiniteSets, TLC

(***************************************************************************)
(* String literals of the source, as code units.                           *)
(***************************************************************************)
\* 'download'
Str_download ==
    <<100,111,119,110,108,111,97,100>>
\* 'csv_images'
Str_csv_images ==
    <<99,115,118,95,105,109,97,103,101,115>>
\* 'inventory-csv'
Str_inventory_csv ==
    <<105,110,118,101,110,116,111,114,121,45,99,115,118>>
\* 'processing-csv'
Str_processing_csv ==
    <<112,114,111,99,101,115,115,105,110,103,45,99,115,118>>
\* 'sample-csv'
Str_sample_csv ==
    <<115,97,109,112,108,101,45,99,115,118>>
\* ' File Key : '
Str_FileKey ==
    <<32,70,105,108,101,32,75,101,121,32,58,32>>
\* 'NoSuchKey'
Str_NoSuchKey ==
    <<78,111,83,117,99,104,75,101,121>>
\* 'FileEdits::CannotFindFile'
Str_CannotFindFile ==
    <<70,105,108,101,69,100,105,116,115,58,58,67,97,110,110,111,116,70,105,110,100,70,105,108,
      101>>
\* 'The file you specified could not be found. Please check your request syntax as well as the bucket you specified to ensure it exists.'
Msg_CannotFindFile ==
    <<84,104,101,32,102,105,108,101,32,121,111,117,32,115,112,101,99,105,102,105,101,100,32,99,
      111,117,108,100,32,110,111,116,32,98,101,32,102,111,117,110,100,46,32,80,108,101,97,115,
      101,32,99,104,101,99,107,32,121,111,117,114,32,114,101,113,117,101,115,116,32,115,121,110,
      116,97,120,32,97,115,32,119,101,108,108,32,97,115,32,116,104,101,32,98,117,99,107,101,116,
      32,121,111,117,32,115,112,101,99,105,102,105,101,100,32,116,111,32,101,110,115,117,114,
      101,32,105,116,32,101,120,105,115,116,115,46>>
\* 'GetAllowedSourceBuckets::NoSourceBuckets'
Str_NoSourceBuckets ==
    <<71,101,116,65,108,108,111,119,101,100,83,111,117,114,99,101,66,117,99,107,101,116,115,58,
      58,78,111,83,111,117,114,99,101,66,117,99,107,101,116,115>>
\* 'The SOURCE_BUCKETS variable could not be read. Please check that it is not empty and contains at least one source bucket, or multiple buckets separated by commas. Spaces can be provided between commas and bucket names, these will be automatically parsed out when decoding.'
Msg_NoSourceBuckets ==
    <<84,104,101,32,83,79,85,82,67,69,95,66,85,67,75,69,84,83,32,118,97,114,105,97,98,108,101,
      32,99,111,117,108,100,32,110,111,116,32,98,101,32,114,101,97,100,46,32,80,108,101,97,115,
      101,32,99,104,101,99,107,32,116,104,97,116,32,105,116,32,105,115,32,110,111,116,32,101,
      109,112,116,121,32,97,110,100,32,99,111,110,116,97,105,110,115,32,97,116,32,108,101,97,
      115,116,32,111,110,101,32,115,111,117,114,99,101,32,98,117,99,107,101,116,44,32,111,114,
      32,109,117,108,116,105,112,108,101,32,98,117,99,107,101,116,115,32,115,101,112,97,114,97,
      116,101,100,32,98,121,32,99,111,109,109,97,115,46,32,83,112,97,99,101,115,32,99,97,110,32,
      98,101,32,112,114,111,118,105,100,101,100,32,98,101,116,119,101,101,110,32,99,111,109,109,
      97,115,32,97,110,100,32,98,117,99,107,101,116,32,110,97,109,101,115,44,32,116,104,101,115,
      101,32,119,105,108,108,32,98,101,32,97,117,116,111,109,97,116,105,99,97,108,108,121,32,
      112,97,114,115,101,100,32,111,117,116,32,119,104,101,110,32,100,101,99,111,100,105,110,
      103,46>>
\* '413'
Str_413 ==
    <<52,49,51>>
\* 'TooLargeImageException'
Str_TooLargeImageException ==
    <<84,111,111,76,97,114,103,101,73,109,97,103,101,69,120,99,101,112,116,105,111,110>>
\* 'The converted image is too large to return.'
Msg_TooLarge ==
    <<84,104,101,32,99,111,110,118,101,114,116,101,100,32,105,109,97,103,101,32,105,115,32,116,
      111,111,32,108,97,114,103,101,32,116,111,32,114,101,116,117,114,110,46>>
\* '403'
Str_403 ==
    <<52,48,51>>
\* 'Invalid folder access'
Str_InvalidFolderAccess ==
    <<73,110,118,97,108,105,100,32,102,111,108,100,101,114,32,97,99,99,101,115,115>>
\* 'The path you are trying to access in not allowed'
Msg_InvalidFolderAccess ==
    <<84,104,101,32,112,97,116,104,32,121,111,117,32,97,114,101,32,116,114,121,105,110,103,32,
      116,111,32,97,99,99,101,115,115,32,105,110,32,110,111,116,32,97,108,108,111,119,101,100>>
\* 'Invalid operation'
Msg_InvalidOperation ==
    <<73,110,118,97,108,105,100,32,111,112,101,114,97,116,105,111,110>>
\* 'max-age=31536000,public'
Str_DefaultCacheControl ==
    <<109,97,120,45,97,103,101,61,51,49,53,51,54,48,48,48,44,112,117,98,108,105,99>>
\* 'Yes'
Str_Yes ==
    <<89,101,115>>
\* 'Internal error. Please contact the system administrator.'
Msg_InternalError ==
    <<73,110,116,101,114,110,97,108,32,101,114,114,111,114,46,32,80,108,101,97,115,101,32,99,
      111,110,116,97,99,116,32,116,104,101,32,115,121,115,116,101,109,32,97,100,109,105,110,105,
      115,116,114,97,116,111,114,46>>
\* 'InternalError'
Str_InternalError ==
    <<73,110,116,101,114,110,97,108,69,114,114,111,114>>
\* 'attachment'
Str_attachment ==
    <<97,116,116,97,99,104,109,101,110,116>>
\* 'GET'
Str_GET ==
    <<71,69,84>>
\* 'Content-Type, Authorization'
Str_AllowHeaders ==
    <<67,111,110,116,101,110,116,45,84,121,112,101,44,32,65,117,116,104,111,114,105,122,97,116,
      105,111,110>>
\* 'application/json'
Str_application_json ==
    <<97,112,112,108,105,99,97,116,105,111,110,47,106,115,111,110>>

(***************************************************************************)
(* JavaScript values and objects.                                          *)
(***************************************************************************)
JSNum(n) == [type |-> "number", num |-> n, str |-> <<>>]
JSStr(s) == [type |-> "string", num |-> 0, str |-> s]
JSBool(b) == [type |-> "boolean", num |-> IF b THEN 1 ELSE 0, str |-> <<>>]
JSUndef == [type |-> "undefined", num |-> 0, str |-> <<>>]

\* ToBoolean, as applied by `x ? a : b`, `if (x)` and `&&`.
Truthy(v) ==
    CASE v.type = "number" -> v.num # 0
      [] v.type = "string" -> v.str # <<>>
      [] v.type = "boolean" -> v.num = 1
      [] OTHER -> FALSE

\* An object literal { k1: v1, ... }: own enumerable properties in insertion order.
PlainObject(pairs) == [own |-> pairs, hidden |-> <<>>]
\* new Error(message): message is an own, non-enumerable property.
NewError(message) == [own |-> <<>>, hidden |-> << <<"message", JSStr(message)>> >>]
\* No object (a variable not yet assigned).
NoObject == [own |-> <<>>, hidden |-> <<>>]

\* Property read o.k (undefined when absent).
Get(o, k) ==
    LET all == o.own \o o.hidden
        idx == {i \in DOMAIN all : all[i][1] = k}
    IN  IF idx = {} THEN JSUndef ELSE all[CHOOSE i \in idx : TRUE][2]

\* JSON.stringify(o) for an object of primitive values: the members, in order,
\* of the own enumerable properties whose value is not undefined.
JSONstringify(o) == SelectSeq(o.own, LAMBDA p : p[2].type # "undefined")

\* A completion: a returned value or a thrown object.
Return(v) == [ok |-> TRUE, val |-> v, err |-> NoObject]
Throw(e) == [ok |-> FALSE, val |-> <<>>, err |-> e]

(***************************************************************************)
(* String functions of the JavaScript runtime.                             *)
(***************************************************************************)
\* String.prototype.includes, for a non-empty needle.
Includes(s, t) ==
    \E i \in 1..(Len(s) - Len(t) + 1) : SubSeq(s, i, i + Len(t) - 1) = t

\* \w of a regular expression: [A-Za-z0-9_].
IsWordChar(c) == c \in (48..57) \cup (65..90) \cup (97..122) \cup {95}

\* \s of a regular expression.
IsWhiteSpace(c) ==
    c \in {9, 10, 11, 12, 13, 32, 160, 5760, 8232, 8233, 8239, 8287, 12288, 65279}
          \cup (8192..8202)

\* s.replace(/\s/, ''): the first white-space character removed.
ReplaceFirstWhiteSpace(s) ==
    LET ws == {i \in DOMAIN s : IsWhiteSpace(s[i])}
    IN  IF ws = {} THEN s
        ELSE LET i == CHOOSE i \in ws : \A j \in ws : i <= j
             IN  SubSeq(s, 1, i - 1) \o SubSeq(s, i + 1, Len(s))

\* s.replace(/\s+/g, ''): every white-space character removed.
ReplaceAllWhiteSpace(s) == SelectSeq(s, LAMBDA c : ~IsWhiteSpace(c))

\* s.split(sep) for a one-character separator: the pieces between the
\* occurrences of sep, in order.
Split(s, sep) ==
    LET at == {i \in DOMAIN s : s[i] = sep}
        nth(k) == IF k = 0 THEN 0
                  ELSE IF k > Cardinality(at) THEN Len(s) + 1
                  ELSE CHOOSE p \in at : Cardinality({q \in at : q <= p}) = k
    IN  [k \in 1..(Cardinality(at) + 1) |-> SubSeq(s, nth(k - 1) + 1, nth(k) - 1)]

\* Whether /\bdownload\/\b/ matches s at index i: 'download/' preceded by the
\* start or a non-word character and followed by a word character.
DownloadTokenAt(s, i) ==
    LET t == Str_download \o <<47>>
    IN  /\ i + Len(t) - 1 <= Len(s)
        /\ SubSeq(s, i, i + Len(t) - 1) = t
        /\ (i = 1 \/ ~IsWordChar(s[i - 1]))
        /\ i + Len(t) <= Len(s)
        /\ IsWordChar(s[i + Len(t)])

\* s.replace(/((\bdownload\/\b)|)/g, ''), scanning from index i: every match of
\* the first alternative is removed; the empty alternative removes nothing.
RECURSIVE ReplaceDownloadFrom(_, _)
ReplaceDownloadFrom(s, i) ==
    IF i > Len(s) THEN <<>>
    ELSE IF DownloadTokenAt(s, i)
         THEN ReplaceDownloadFrom(s, i + Len(Str_download) + 1)
         ELSE <<s[i]>> \o ReplaceDownloadFrom(s, i + 1)

\* s.replace(/\)/g, '')
ReplaceCloseParen(s) == SelectSeq(s, LAMBDA c : c # 41)

\* s.replace(/^\/+/, '')
ReplaceLeadingSlashes(s) ==
    LET n == CHOOSE n \in 0..Len(s) :
                 /\ \A i \in 1..n : s[i] = 47
                 /\ (n = Len(s) \/ s[n + 1] # 47)
    IN  SubSeq(s, n + 1, Len(s))

\* Value of a hexadecimal digit, -1 for any other character.
HexVal(c) ==
    CASE c \in 48..57 -> c - 48
      [] c \in 65..70 -> c - 55
      [] c \in 97..102 -> c - 87
      [] OTHER -> -1

\* The byte of two hexadecimal digit values, -1 when one is not a digit's.
HexByte(h1, h2) == IF h1 >= 0 /\ h2 >= 0 THEN 16 * h1 + h2 ELSE -1

\* The byte of the escape %XX at index k of s, -1 when there is none.
EscapedByte(s, k) ==
    IF k + 2 <= Len(s) /\ s[k] = 37
    THEN HexByte(HexVal(s[k + 1]), HexVal(s[k + 2]))
    ELSE -1

\* Number of bytes of the UTF-8 sequence that byte b starts (1 for ASCII);
\* 0 when b cannot start one (a continuation byte or 0xF8..0xFF).
Utf8Length(b) ==
    CASE b < 128 -> 1
      [] b \in 192..223 -> 2
      [] b \in 224..239 -> 3
      [] b \in 240..247 -> 4
      [] OTHER -> 0

\* The code point of the n-byte UTF-8 sequence b0 b1 b2 b3 (n in 2..4; a byte
\* is -1 where the string has no escape): -1 when the bytes are not a valid
\* UTF-8 encoding of a code point.
Utf8Value(n, b0, b1, b2, b3) ==
    LET cont(b) == b \in 128..191
        v == CASE n = 2 -> (b0 - 192) * 64 + (b1 - 128)
               [] n = 3 -> (b0 - 224) * 4096 + (b1 - 128) * 64 + (b2 - 128)
               [] OTHER -> (b0 - 240) * 262144 + (b1 - 128) * 4096
                           + (b2 - 128) * 64 + (b3 - 128)
    IN  CASE n = 2 -> IF cont(b1) /\ v >= 128 THEN v ELSE -1
          [] n = 3 -> IF cont(b1) /\ cont(b2) /\ v >= 2048
                         /\ ~(v >= 55296 /\ v <= 57343)
                      THEN v ELSE -1
          [] OTHER -> IF cont(b1) /\ cont(b2) /\ cont(b3)
                         /\ v >= 65536 /\ v <= 1114111
                      THEN v ELSE -1

\* The code point of the n-byte UTF-8 sequence escaped at index k of s.
Utf8CodePoint(s, k, n) ==
    Utf8Value(n, EscapedByte(s, k), EscapedByte(s, k + 3), EscapedByte(s, k + 6),
              EscapedByte(s, k + 9))

\* The UTF-16 code units of a code point.
Utf16(v) ==
    IF v < 65536 THEN <<v>>
    ELSE <<55296 + ((v - 65536) \div 1024), 56320 + ((v - 65536) % 1024)>>

\* The code point and the length in bytes of the escape sequence that starts
\* with byte b at index k of s (b = -1: no escape there); cp = -1 when malformed.
EscapeAt(s, k, b) ==
    IF b < 0 \/ Utf8Length(b) = 0 THEN [cp |-> -1, n |-> 0]
    ELSE IF Utf8Length(b) = 1 THEN [cp |-> b, n |-> 1]
    ELSE [cp |-> Utf8CodePoint(s, k, Utf8Length(b)), n |-> Utf8Length(b)]

\* The decoding of s from index k, as code units; it ends with -1 where an
\* escape sequence is malformed.
RECURSIVE DecodeFrom(_, _)
RECURSIVE DecodeEscape(_, _, _)
DecodeEscape(s, k, e) ==
    IF e.cp < 0 THEN <<-1>>
    ELSE Utf16(e.cp) \o DecodeFrom(s, k + 3 * e.n)

DecodeFrom(s, k) ==
    IF k > Len(s) THEN <<>>
    ELSE IF s[k] # 37 THEN <<s[k]>> \o DecodeFrom(s, k + 1)
    ELSE CHOOSE r \in {DecodeEscape(s, k, e) : e \in {EscapeAt(s, k, EscapedByte(s, k))}} :
            TRUE

\* 'URI malformed', the message of the runtime's URIError
Msg_URIMalformed ==
    <<85,82,73,32,109,97,108,102,111,114,109,101,100>>

\* The completion of a decoding: the string, or a URIError where it is malformed.
DecodeCompletion(units) ==
    IF \E i \in DOMAIN units : units[i] < 0 THEN Throw(NewError(Msg_URIMalformed))
    ELSE Return(units)

decodeURIComponent(s) ==
    CHOOSE r \in {DecodeCompletion(units) : units \in {DecodeFrom(s, 1)}} : TRUE

\* String(v), as applied by the + operator to a string or undefined operand.
StringOf(v) ==
    IF v.type = "string" THEN v.str
    ELSE <<117,110,100,101,102,105,110,101,100>>

(***************************************************************************)
(* Buffers and base64.  A buffer is `zeros` zero bytes followed by the     *)
(* bytes `tail`; a base64 text is `As` characters 'A' followed by the      *)
(* characters `rest` (three zero bytes encode as 'AAAA').                   *)
(***************************************************************************)
Buffer(zeros, tail) == [zeros |-> zeros, tail |-> tail]

\* The character of a base64 digit 0..63.
Base64Char(i) ==
    CASE i < 26 -> 65 + i
      [] i \in 26..51 -> 97 + (i - 26)
      [] i \in 52..61 -> 48 + (i - 52)
      [] i = 62 -> 43
      [] OTHER -> 47

\* The base64 text of the bytes from index i on, '=' padded.
RECURSIVE Base64EncodeFrom(_, _)
Base64EncodeFrom(bytes, i) ==
    LET a == bytes[i]
        b == bytes[i + 1]
        c == bytes[i + 2]
    IN  CASE i > Len(bytes) -> <<>>
          [] i = Len(bytes) ->
                <<Base64Char(a \div 4), Base64Char((a % 4) * 16), 61, 61>>
          [] i + 1 = Len(bytes) ->
                <<Base64Char(a \div 4), Base64Char((a % 4) * 16 + (b \div 16)),
                  Base64Char((b % 16) * 4), 61>>
          [] OTHER ->
                <<Base64Char(a \div 4), Base64Char((a % 4) * 16 + (b \div 16)),
                  Base64Char((b % 16) * 4 + (c \div 64)), Base64Char(c % 64)>>
                \o Base64EncodeFrom(bytes, i + 3)

Base64Encode(bytes) == Base64EncodeFrom(bytes, 1)

\* Buffer.from(buffer, 'base64'): a copy of the buffer (the encoding argument
\* applies to string input only).
BufferFrom(buffer) == Buffer(buffer.zeros, buffer.tail)

\* buffer.toString('base64')
BufferToBase64(buffer) ==
    LET r == buffer.zeros % 3
    IN  [As |-> 4 * (buffer.zeros \div 3),
         rest |-> Base64Encode([i \in 1..r |-> 0] \o buffer.tail)]

\* The length of a base64 text.
length(text) == text.As + Len(text.rest)

(***************************************************************************)
(* State of one invocation of exports.handler.                             *)
(***************************************************************************)
VARIABLES
    env,            \* process.env, read-only during the invocation
    event,          \* the inbound event: [path, isAlb]
    pc,             \* the position of exports.handler
    isFile,         \* the classification of the request
    request,        \* the fields of the handler instance that setup resolves to
    err,            \* the object caught by the dispatcher's catch clause
    primaryReply,   \* the settled s3.getObject promise of getOriginalFile
    fallbackReply,  \* the settled s3.getObject promise of the fallback fetch
    s3calls,        \* the s3.getObject calls issued so far, in order
    responses       \* the values exports.handler has resolved with

vars == <<env, event, pc, isFile, request, err, primaryReply, fallbackReply,
          s3calls, responses>>

(***************************************************************************)
(* FileRequestHandler                                                      *)
(***************************************************************************)
\* The handler instance after construction: no field of a request is set.
NewFileRequestHandler ==
    [bucket |-> JSUndef, key |-> JSUndef, originalFile |-> Buffer(0, <<>>),
     ContentType |-> JSUndef, CacheControl |-> JSUndef, Expires |-> JSUndef,
     LastModified |-> JSUndef, headers |-> NoObject]

\* getAllowedSourceBuckets with the white space of the list kept.
getAllowedSourceBuckets_KeepWhiteSpace ==
    LET sourceBuckets == env.SOURCE_BUCKETS
    IN  IF sourceBuckets.type = "undefined"
        THEN Throw(PlainObject(<< <<"status", JSNum(400)>>,
                                  <<"code", JSStr(Str_NoSourceBuckets)>>,
                                  <<"message", JSStr(Msg_NoSourceBuckets)>> >>))
        ELSE Return(Split(sourceBuckets.str, 44))

getAllowedSourceBuckets ==
    LET sourceBuckets == env.SOURCE_BUCKETS
    IN  IF sourceBuckets.type = "undefined"
        THEN Throw(PlainObject(<< <<"status", JSNum(400)>>,
                                  <<"code", JSStr(Str_NoSourceBuckets)>>,
                                  <<"message", JSStr(Msg_NoSourceBuckets)>> >>))
        ELSE Return(Split(ReplaceAllWhiteSpace(sourceBuckets.str), 44))

\* sourceBuckets[0] of the completion of getAllowedSourceBuckets.
firstBucket(sourceBuckets) ==
    IF sourceBuckets.ok THEN Return(JSStr(sourceBuckets.val[1])) ELSE sourceBuckets

parseFileBucket == firstBucket(getAllowedSourceBuckets)

\* The path with the download token, the closing parentheses and the leading
\* slashes removed.
s3_file_path(path) ==
    CHOOSE r \in {ReplaceLeadingSlashes(t) :
                     t \in {ReplaceCloseParen(u) : u \in {ReplaceDownloadFrom(path, 1)}}} :
        TRUE

\* The try/catch of parseFileKey around the completion of decodeURIComponent.
parseFileKeyCatch(decoded) ==
    IF decoded.ok THEN Return(JSStr(decoded.val))
    ELSE Throw(PlainObject(<< <<"status", JSNum(404)>>,
                              <<"code", JSStr(Str_CannotFindFile)>>,
                              <<"message", JSStr(Msg_CannotFindFile)>> >>))

parseFileKey(path) ==
    CHOOSE r \in {parseFileKeyCatch(decoded) :
                     decoded \in {decodeURIComponent(p) : p \in {s3_file_path(path)}}} :
        TRUE

allowed_folders ==
    {Str_csv_images, Str_inventory_csv, Str_processing_csv, Str_sample_csv}

\* checkAccess with the membership test lost: every folder is allowed.
checkAccess_AllowAll(key) ==
    LET folder == Split(key, 47)[1]
    IN  folder = folder

\* key is always a string here (the result of decodeURIComponent), so split
\* cannot throw and the catch clause of checkAccess is never entered.
checkAccess(key) ==
    LET folder == Split(key, 47)[1]
    IN  folder \in allowed_folders

\* The location getOriginalFile asks the store for.
fileLocation(bucket, key) == [Bucket |-> bucket, Key |-> key]

\* getOriginalFile answering every failure of the store with status 500.
getOriginalFile_Always500(this, reply, key) ==
    IF reply.ok
    THEN [ok |-> TRUE, val |-> reply.val.Body, err |-> NoObject,
          this |-> [this EXCEPT
                      !.ContentType = reply.val.ContentType,
                      !.CacheControl =
                          IF Truthy(reply.val.CacheControl)
                          THEN reply.val.CacheControl
                          ELSE JSStr(Str_DefaultCacheControl)]]
    ELSE [ok |-> FALSE, val |-> <<>>, this |-> this,
          err |-> PlainObject(<<
              <<"status", JSNum(500)>>,
              <<"code", Get(reply.err, "code")>>,
              <<"message", JSStr(StringOf(Get(reply.err, "message"))
                                 \o Str_FileKey \o StringOf(key))>> >>)]

\* getOriginalFile once s3.getObject has settled with `reply`: the completion
\* and the handler's fields.
getOriginalFile(this, reply, key) ==
    IF reply.ok
    THEN [ok |-> TRUE, val |-> reply.val.Body, err |-> NoObject,
          this |-> [this EXCEPT
                      !.ContentType = reply.val.ContentType,
                      !.CacheControl =
                          IF Truthy(reply.val.CacheControl)
                          THEN reply.val.CacheControl
                          ELSE JSStr(Str_DefaultCacheControl)]]
    ELSE [ok |-> FALSE, val |-> <<>>, this |-> this,
          err |-> PlainObject(<<
              <<"status", IF Get(reply.err, "code") = JSStr(Str_NoSuchKey)
                          THEN JSNum(404) ELSE JSNum(500)>>,
              <<"code", Get(reply.err, "code")>>,
              <<"message", JSStr(StringOf(Get(reply.err, "message"))
                                 \o Str_FileKey \o StringOf(key))>> >>)]

lambdaPayloadLimit == 6 * 1024 * 1024

\* The payload check of process on the encoded text.
checkPayload(returnFile) ==
    IF length(returnFile) > lambdaPayloadLimit
    THEN Throw(PlainObject(<< <<"status", JSStr(Str_413)>>,
                              <<"code", JSStr(Str_TooLargeImageException)>>,
                              <<"message", JSStr(Msg_TooLarge)>> >>))
    ELSE Return(returnFile)

process(req) == checkPayload(BufferToBase64(BufferFrom(req.originalFile)))

\* The body of setup's try block before the call of s3.getObject, given the
\* completions of parseFileBucket and parseFileKey: the handler's fields, and
\* whether the fetch is reached or which object is thrown.
setupChecks(this, bucket, key) ==
    IF ~bucket.ok THEN [ok |-> FALSE, this |-> this, err |-> bucket.err]
    ELSE IF ~key.ok
    THEN [ok |-> FALSE, this |-> [this EXCEPT !.bucket = bucket.val], err |-> key.err]
    ELSE IF checkAccess(key.val.str)
    THEN [ok |-> TRUE, this |-> [this EXCEPT !.bucket = bucket.val, !.key = key.val],
          err |-> NoObject]
    ELSE [ok |-> FALSE, this |-> [this EXCEPT !.bucket = bucket.val, !.key = key.val],
          err |-> NewError(Msg_InvalidOperation)]

\* The synchronous part of setup, up to the call of s3.getObject.
setupStart(this, path) ==
    CHOOSE r \in {setupChecks(this, bucket, key) :
                     bucket \in {parseFileBucket}, key \in {parseFileKey(path)}} :
        TRUE

(***************************************************************************)
(* The dispatcher: exports.handler and getResponseHeaders.                 *)
(***************************************************************************)
\* The pairs of an object after o[k] = v: an existing key keeps its place.
PutPair(pairs, k, v) ==
    IF \E i \in DOMAIN pairs : pairs[i][1] = k
    THEN [i \in DOMAIN pairs |-> IF pairs[i][1] = k THEN <<k, v>> ELSE pairs[i]]
    ELSE Append(pairs, <<k, v>>)

\* o[k] = v on an object.
Put(o, k, v) ==
    CHOOSE r \in {[own |-> PutPair(x.own, k, v), hidden |-> x.hidden] : x \in {o}} : TRUE

\* for (let key in from) o[key] = from[key], over the pairs of `from`.
RECURSIVE PutAll(_, _)
PutAll(o, pairs) ==
    IF pairs = <<>> THEN o
    ELSE PutAll(Put(o, pairs[1][1], pairs[1][2]), Tail(pairs))

getResponseHeaders(isErr, isAlb) ==
    LET corsEnabled == env.CORS_ENABLED = JSStr(Str_Yes)
        h0 == PlainObject(<< <<"Access-Control-Allow-Methods", JSStr(Str_GET)>>,
                             <<"Access-Control-Allow-Headers", JSStr(Str_AllowHeaders)>> >>)
        h1 == IF ~isAlb THEN Put(h0, "Access-Control-Allow-Credentials", JSBool(TRUE))
              ELSE h0
        h2 == IF corsEnabled THEN Put(h1, "Access-Control-Allow-Origin", env.CORS_ORIGIN)
              ELSE h1
    IN  IF isErr THEN Put(h2, "Content-Type", JSStr(Str_application_json)) ELSE h2

\* The response of the try block, once setup and process have succeeded.
successResponse(req, processedRequest, file, isAlb) ==
    LET h0 == getResponseHeaders(FALSE, isAlb)
        h1 == Put(Put(h0, "Content-Type", req.ContentType), "Expires", req.Expires)
        h2 == IF file THEN Put(h1, "Content-Disposition", JSStr(Str_attachment)) ELSE h1
        h3 == Put(Put(h2, "Last-Modified", req.LastModified),
                  "Cache-Control", req.CacheControl)
        headers == PutAll(h3, req.headers.own)
    IN  [statusCode |-> JSNum(200), isBase64Encoded |-> TRUE,
         headers |-> headers, body |-> processedRequest]

\* The condition of the catch clause under which the fallback image is fetched.
fallbackEnabled ==
    /\ env.ENABLE_DEFAULT_FALLBACK_IMAGE = JSStr(Str_Yes)
    /\ Truthy(env.DEFAULT_FALLBACK_IMAGE_BUCKET)
    /\ ReplaceFirstWhiteSpace(env.DEFAULT_FALLBACK_IMAGE_BUCKET.str) # <<>>
    /\ Truthy(env.DEFAULT_FALLBACK_IMAGE_KEY)
    /\ ReplaceFirstWhiteSpace(env.DEFAULT_FALLBACK_IMAGE_KEY.str) # <<>>

\* The location of the fallback fetch.
fallbackLocation ==
    [Bucket |-> env.DEFAULT_FALLBACK_IMAGE_BUCKET, Key |-> env.DEFAULT_FALLBACK_IMAGE_KEY]

\* fallbackResponse with the status of the caught object ignored.
fallbackResponse_Status500(e, defaultFallbackImage, isAlb) ==
    [statusCode |-> JSNum(500),
     isBase64Encoded |-> TRUE,
     headers |-> Put(Put(Put(getResponseHeaders(FALSE, isAlb),
                             "Content-Type", defaultFallbackImage.ContentType),
                         "Last-Modified", defaultFallbackImage.LastModified),
                     "Cache-Control", JSStr(Str_DefaultCacheControl)),
     body |-> BufferToBase64(defaultFallbackImage.Body)]

\* The response carrying the fallback image.
fallbackResponse(e, defaultFallbackImage, isAlb) ==
    LET h0 == getResponseHeaders(FALSE, isAlb)
        headers == Put(Put(Put(h0, "Content-Type", defaultFallbackImage.ContentType),
                           "Last-Modified", defaultFallbackImage.LastModified),
                       "Cache-Control", JSStr(Str_DefaultCacheControl))
    IN  [statusCode |-> IF Truthy(Get(e, "status")) THEN Get(e, "status") ELSE JSNum(500),
         isBase64Encoded |-> TRUE,
         headers |-> headers,
         body |-> BufferToBase64(defaultFallbackImage.Body)]

\* The structured or generic error response of the catch clause.
errorResponse(e, isAlb) ==
    IF Truthy(Get(e, "status"))
    THEN [statusCode |-> Get(e, "status"), isBase64Encoded |-> FALSE,
          headers |-> getResponseHeaders(TRUE, isAlb),
          body |-> JSONstringify(e)]
    ELSE [statusCode |-> JSNum(500), isBase64Encoded |-> FALSE,
          headers |-> getResponseHeaders(TRUE, isAlb),
          body |-> JSONstringify(PlainObject(<<
                       <<"message", JSStr(Msg_InternalError)>>,
                       <<"code", JSStr(Str_InternalError)>>,
                       <<"status", JSNum(500)>> >>))]

\* afterFallbackFetch with the inner catch clause lost: a failure of the
\* fallback fetch escapes the handler.
afterFallbackFetch_Rethrow(e, reply, isAlb) ==
    IF reply.ok THEN Return(fallbackResponse(e, reply.val, isAlb))
    ELSE Throw(reply.err)

\* afterFallbackFetch answering a failed fallback fetch from the fetch's error
\* instead of the caught object.
afterFallbackFetch_SecondError(e, reply, isAlb) ==
    IF reply.ok THEN Return(fallbackResponse(e, reply.val, isAlb))
    ELSE Return(errorResponse(reply.err, isAlb))

\* What the catch clause does when the fallback fetch settles with `reply`: it
\* returns the fallback response, or (the failure logged by the inner catch) the
\* error response of `e`.
afterFallbackFetch(e, reply, isAlb) ==
    IF reply.ok THEN Return(fallbackResponse(e, reply.val, isAlb))
    ELSE Return(errorResponse(e, isAlb))

\* What the catch clause does when no fallback image is configured.
withoutFallback(e, isAlb) == Return(errorResponse(e, isAlb))

(***************************************************************************)
(* The inputs explored: request paths, configurations, store replies.       *)
(***************************************************************************)
\* The request paths of the invocations explored.
Paths ==
    {
      <<47,100,111,119,110,108,111,97,100,47,99,115,118,95,105,109,97,103,101,115,47,97,46,99,115,118>>,   \* '/download/csv_images/a.csv'
      <<47,100,111,119,110,108,111,97,100,47,115,101,99,114,101,116,47,97,46,99,115,118>>,   \* '/download/secret/a.csv'
      <<47,100,111,119,110,108,111,97,100,47,115,97,109,112,108,101,45,99,115,118,47,37>>,   \* '/download/sample-csv/%'
      <<47,105,109,97,103,101,46,112,110,103>>,   \* '/image.png'
      <<100,111,119,110,108,111,97,100,47,100,111,119,110,108,111,97,100,47,99,115,118,95,105,109,97,103,101,115,47,98,41>>,   \* 'download/download/csv_images/b)'
      <<47,100,111,119,110,108,111,97,100,47,99,115,118,95,105,109,97,103,101,115,37,50,70,97>>,   \* '/download/csv_images%2Fa'
      <<47,100,111,119,110,108,111,97,100,47,99,115,118,95,105,109,97,103,101,115,47,97,40,49,41,46,99,115,118>>   \* '/download/csv_images/a(1).csv'
    }
\* Values of SOURCE_BUCKETS (besides undefined).
SourceBucketsValues ==
    {
      <<98,49>>,   \* 'b1'
      <<32,98,49,32,44,32,98,50>>,   \* ' b1 , b2'
      <<98,32,49,44,98,50>>   \* 'b 1,b2'
    }
\* Values of DEFAULT_FALLBACK_IMAGE_BUCKET (besides undefined).
FallbackBucketValues ==
    {
      <<>>,   \* ''
      <<32>>,   \* ' '
      <<32,32>>,   \* '  '
      <<102,98>>,   \* 'fb'
      <<102,32,98>>   \* 'f b'
    }
\* Values of DEFAULT_FALLBACK_IMAGE_KEY (besides undefined).
FallbackKeyValues ==
    {
      <<32>>,   \* ' '
      <<107>>   \* 'k'
    }
\* 'No'
In_No ==
    <<78,111>>
\* '*'
In_Star ==
    <<42>>
\* 'text/csv'
In_text_csv ==
    <<116,101,120,116,47,99,115,118>>
\* 'no-cache'
In_no_cache ==
    <<110,111,45,99,97,99,104,101>>
\* 'image/png'
In_image_png ==
    <<105,109,97,103,101,47,112,110,103>>
\* 'Wed, 21 Oct 2015 07:28:00 GMT'
In_date ==
    <<87,101,100,44,32,50,49,32,79,99,116,32,50,48,49,53,32,48,55,58,50,56,58,48,48,32,71,77,84>>
\* 'AccessDenied'
In_AccessDenied ==
    <<65,99,99,101,115,115,68,101,110,105,101,100>>
\* 'The specified key does not exist.'
In_MsgNoSuchKey ==
    <<84,104,101,32,115,112,101,99,105,102,105,101,100,32,107,101,121,32,100,111,101,115,32,110,111,116,32,101,120,105,115,116,46>>
\* 'Access Denied'
In_MsgAccessDenied ==
    <<65,99,99,101,115,115,32,68,101,110,105,101,100>>
\* 'ImageRequest::Failed'
In_ImageError ==
    <<73,109,97,103,101,82,101,113,117,101,115,116,58,58,70,97,105,108,101,100>>
\* 'The image request failed.'
In_MsgImageError ==
    <<84,104,101,32,105,109,97,103,101,32,114,101,113,117,101,115,116,32,102,97,105,108,101,100,46>>

\* Longest non-zero tail of an object body explored.
MaxTail == 1

\* The number of bytes whose base64 text has exactly lambdaPayloadLimit characters.
LimitBytes == (lambdaPayloadLimit \div 4) * 3

\* Object bodies: short ones, and ones at and just over the payload limit.
Bodies ==
    {Buffer(zeros, [i \in 1..n |-> 255]) : zeros \in {0, LimitBytes}, n \in 0..MaxTail}

Environments ==
    [SOURCE_BUCKETS : {JSUndef} \cup {JSStr(s) : s \in SourceBucketsValues},
     ENABLE_DEFAULT_FALLBACK_IMAGE : {JSUndef, JSStr(Str_Yes), JSStr(In_No)},
     DEFAULT_FALLBACK_IMAGE_BUCKET : {JSUndef} \cup {JSStr(s) : s \in FallbackBucketValues},
     DEFAULT_FALLBACK_IMAGE_KEY : {JSUndef} \cup {JSStr(s) : s \in FallbackKeyValues},
     CORS_ENABLED : {JSUndef, JSStr(Str_Yes)},
     CORS_ORIGIN : {JSStr(In_Star)}]

Events == [path : Paths, isAlb : BOOLEAN]

\* An error the store rejects getObject with.
S3Error(code, message) ==
    [own |-> << <<"code", JSStr(code)>> >>, hidden |-> << <<"message", JSStr(message)>> >>]

S3Errors ==
    {S3Error(Str_NoSuchKey, In_MsgNoSuchKey), S3Error(In_AccessDenied, In_MsgAccessDenied)}

\* What s3.getObject may settle with for the requested object.
OriginalFileReplies ==
    {Return([Body |-> b, ContentType |-> JSStr(In_text_csv), CacheControl |-> c,
             LastModified |-> JSStr(In_date)]) :
        b \in Bodies, c \in {JSUndef, JSStr(In_no_cache)}}
    \cup {Throw(e) : e \in S3Errors}

\* What s3.getObject may settle with for the fallback image.
FallbackReplies ==
    {Return([Body |-> Buffer(0, <<255, 255>>), ContentType |-> JSStr(In_image_png),
             CacheControl |-> JSUndef, LastModified |-> JSStr(In_date)])}
    \cup {Throw(e) : e \in S3Errors}

\* The outcomes of imageRequest.setup followed by imageHandler.process: a
\* resolved request with its processed payload, or a thrown object with or
\* without a status.
ImageOutcomes ==
    {Return([request |-> [NewFileRequestHandler EXCEPT
                             !.ContentType = JSStr(In_image_png),
                             !.CacheControl = JSStr(Str_DefaultCacheControl),
                             !.LastModified = JSStr(In_date),
                             !.headers = h],
             processedRequest |-> BufferToBase64(Buffer(0, <<255>>))]) :
        h \in {NoObject, PlainObject(<< <<"Cache-Control", JSStr(In_no_cache)>> >>)}}
    \cup {Throw(PlainObject(<< <<"status", JSNum(400)>>,
                               <<"code", JSStr(In_ImageError)>>,
                               <<"message", JSStr(In_MsgImageError)>> >>)),
          Throw(NewError(In_MsgImageError))}

\* No reply received yet.
NoReply == [ok |-> FALSE, val |-> <<>>, err |-> NoObject]

(***************************************************************************)
(* One invocation of exports.handler.                                      *)
(***************************************************************************)
Init ==
    /\ env \in Environments
    /\ event \in Events
    /\ pc = "Received"
    /\ isFile = FALSE
    /\ request = NewFileRequestHandler
    /\ err = NoObject
    /\ primaryReply = NoReply
    /\ fallbackReply = NoReply
    /\ s3calls = <<>>
    /\ responses = <<>>

\* The promise of exports.handler settles with completion r: it resolves with
\* the response returned, or rejects with what escaped the handler.
Settle(r) ==
    IF r.ok
    THEN /\ responses' = Append(responses, r.val)
         /\ pc' = "ResponseSent"
    ELSE /\ responses' = responses
         /\ pc' = "Rejected"

\* let isFile = fqdn.includes("download")
Classify ==
    /\ pc = "Received"
    /\ isFile' = Includes(event.path, Str_download)
    /\ pc' = IF isFile' THEN "FileSetup" ELSE "ImageFlow"
    /\ UNCHANGED <<env, event, request, err, primaryReply, fallbackReply, s3calls,
                   responses>>

\* The effect of setupStart's result r: the fetch is issued, or the thrown
\* object reaches the catch clause.
AfterSetupStart(r) ==
    /\ request' = r.this
    /\ IF r.ok
       THEN /\ s3calls' = Append(s3calls,
                                 [from |-> "getOriginalFile",
                                  params |-> fileLocation(r.this.bucket, r.this.key)])
            /\ pc' = "AwaitOriginalFile"
            /\ err' = err
       ELSE /\ err' = r.err
            /\ pc' = "Caught"
            /\ s3calls' = s3calls

\* fileRequestHandler.setup(event) up to the call of s3.getObject.
FileSetup ==
    /\ pc = "FileSetup"
    /\ \E r \in {setupStart(NewFileRequestHandler, event.path)} : AfterSetupStart(r)
    /\ UNCHANGED <<env, event, isFile, primaryReply, fallbackReply, responses>>

\* The effect of getOriginalFile's completion r on setup.
AfterGetOriginalFile(r) ==
    IF r.ok
    THEN /\ request' = [r.this EXCEPT !.originalFile = r.val]
         /\ pc' = "FileProcess"
         /\ err' = err
    ELSE /\ request' = r.this
         /\ err' = r.err
         /\ pc' = "Caught"

\* s3.getObject of getOriginalFile settles; setup resolves or throws.
OriginalFileSettles ==
    /\ pc = "AwaitOriginalFile"
    /\ \E reply \in OriginalFileReplies :
          /\ primaryReply' = reply
          /\ \E r \in {getOriginalFile(request, reply, request.key)} :
                AfterGetOriginalFile(r)
    /\ UNCHANGED <<env, event, isFile, fallbackReply, s3calls, responses>>

\* The effect of process's completion r: the response of the try block, or the
\* thrown object reaches the catch clause.
AfterProcess(r) ==
    IF r.ok
    THEN /\ Settle(Return(successResponse(request, r.val, isFile, event.isAlb)))
         /\ err' = err
    ELSE /\ err' = r.err
         /\ pc' = "Caught"
         /\ responses' = responses

\* fileRequestHandler.process(request), then the response of the try block.
FileProcess ==
    /\ pc = "FileProcess"
    /\ \E r \in {process(request)} : AfterProcess(r)
    /\ UNCHANGED <<env, event, isFile, request, primaryReply, fallbackReply, s3calls>>

\* imageRequest.setup(event) and imageHandler.process(request), then the
\* response of the try block.
ImageFlow ==
    /\ pc = "ImageFlow"
    /\ \E r \in ImageOutcomes :
          IF r.ok
          THEN /\ request' = r.val.request
               /\ Settle(Return(successResponse(r.val.request, r.val.processedRequest,
                                                isFile, event.isAlb)))
               /\ err' = err
          ELSE /\ err' = r.err
               /\ pc' = "Caught"
               /\ UNCHANGED <<request, responses>>
    /\ UNCHANGED <<env, event, isFile, primaryReply, fallbackReply, s3calls>>

\* The catch clause: the fallback fetch is issued, or the error response returned.
Catch ==
    /\ pc = "Caught"
    /\ IF fallbackEnabled
       THEN /\ s3calls' = Append(s3calls, [from |-> "handler", params |-> fallbackLocation])
            /\ pc' = "AwaitFallback"
            /\ responses' = responses
       ELSE /\ Settle(withoutFallback(err, event.isAlb))
            /\ s3calls' = s3calls
    /\ UNCHANGED <<env, event, isFile, request, err, primaryReply, fallbackReply>>

\* s3.getObject of the fallback image settles.
FallbackSettles ==
    /\ pc = "AwaitFallback"
    /\ \E reply \in FallbackReplies :
          /\ fallbackReply' = reply
          /\ Settle(afterFallbackFetch(err, reply, event.isAlb))
    /\ UNCHANGED <<env, event, isFile, request, err, primaryReply, s3calls>>

Next ==
    \/ Classify
    \/ FileSetup
    \/ OriginalFileSettles
    \/ FileProcess
    \/ ImageFlow
    \/ Catch
    \/ FallbackSettles

Spec == Init /\ [][Next]_vars

\* Every continuation of the invocation is eventually run, and the store
\* settles every request.
FairSpec == Init /\ [][Next]_vars /\ WF_vars(Next)

(***************************************************************************)
(* Properties.                                                             *)
(***************************************************************************)
\* The folder allow-list, as the specification gives it.
AllowList ==
    {Str_csv_images, Str_inventory_csv, Str_processing_csv, Str_sample_csv}

\* The first '/'-separated segment of a key: its longest prefix without '/'.
FirstSegment(k) ==
    LET n == CHOOSE n \in 0..Len(k) :
                 /\ \A i \in 1..n : k[i] # 47
                 /\ (n = Len(k) \/ k[n + 1] = 47)
    IN  SubSeq(k, 1, n)

\* The s3.getObject calls issued from a place of the source.
CallsFrom(place) == SelectSeq(s3calls, LAMBDA c : c.from = place)

\* setup has resolved the key of a file request.
KeyResolved == isFile /\ request.key.type = "string"

\* setup has just failed on a resolved key whose folder is not allowed.
FolderRejected ==
    /\ pc = "Caught"
    /\ KeyResolved
    /\ FirstSegment(request.key.str) \notin AllowList

\* C1: with SOURCE_BUCKETS set, a file request whose resolved key has a first
\* segment outside the allow-list makes setup fail with an error of status 403
\* and code 'Invalid folder access'; a key in an allowed folder is authorized
\* and setup proceeds to the fetch.
C1_RejectedFolderFailsWith403 ==
    /\ FolderRejected =>
          /\ Get(err, "status") \in {JSNum(403), JSStr(Str_403)}
          /\ Get(err, "code") = JSStr(Str_InvalidFolderAccess)
    /\ (KeyResolved /\ FirstSegment(request.key.str) \in AllowList) =>
          Len(CallsFrom("getOriginalFile")) = 1

\* C2: the get for the requested (bucket, key) is issued only if the first
\* segment of the resolved key is in the allow-list; a request whose key fails
\* the check is rejected by setup before any store access has been made.
C2_FetchOnlyForAllowedFolder ==
    /\ \A i \in DOMAIN s3calls :
          s3calls[i].from = "getOriginalFile" =>
             /\ KeyResolved
             /\ s3calls[i].params = [Bucket |-> request.bucket, Key |-> request.key]
             /\ FirstSegment(request.key.str) \in AllowList
    /\ (KeyResolved /\ FirstSegment(request.key.str) \notin AllowList) =>
          /\ pc \notin {"AwaitOriginalFile", "FileProcess"}
          /\ primaryReply = NoReply
          /\ CallsFrom("getOriginalFile") = <<>>
          /\ (pc = "Caught" => s3calls = <<>>)

\* A file request has been rejected for its folder, the store untouched.
C2_Witness == FolderRejected /\ s3calls = <<>>

\* The fields of a response envelope.
EnvelopeFields == {"statusCode", "isBase64Encoded", "headers", "body"}

\* C3: every invocation eventually reaches ResponseSent with exactly one
\* response envelope {statusCode, isBase64Encoded, headers, body}: nothing
\* escapes the handler, and no invocation ends with zero or several responses.
C3_ExactlyOneResponse ==
    /\ [](/\ pc # "Rejected"
          /\ Len(responses) <= 1
          /\ (pc = "ResponseSent" <=> Len(responses) = 1)
          /\ \A i \in DOMAIN responses : DOMAIN responses[i] = EnvelopeFields)
    /\ <>(pc = "ResponseSent")

\* The fallback fetch has failed.
FallbackFetchFailed == fallbackReply # NoReply /\ ~fallbackReply.ok

\* A response has been sent after the handler and then the fallback fetch failed.
C3_Witness ==
    /\ pc = "ResponseSent"
    /\ Len(responses) = 1
    /\ err # NoObject
    /\ FallbackFetchFailed

\* The index 0..63 of a base64 character.
Base64Index(c) ==
    CASE c \in 65..90 -> c - 65
      [] c \in 97..122 -> c - 97 + 26
      [] c \in 48..57 -> c - 48 + 52
      [] c = 43 -> 62
      [] OTHER -> 63

\* The bytes a padded base64 text stands for, from index i on.
RECURSIVE Base64DecodeFrom(_, _)
Base64DecodeFrom(chars, i) ==
    IF i + 3 > Len(chars) THEN <<>>
    ELSE LET i1 == Base64Index(chars[i])
             i2 == Base64Index(chars[i + 1])
             i3 == Base64Index(chars[i + 2])
             i4 == Base64Index(chars[i + 3])
             b1 == i1 * 4 + (i2 \div 16)
             b2 == (i2 % 16) * 16 + (i3 \div 4)
             b3 == (i3 % 4) * 64 + i4
         IN  IF chars[i + 2] = 61 THEN <<b1>>
             ELSE IF chars[i + 3] = 61 THEN <<b1, b2>>
             ELSE <<b1, b2, b3>> \o Base64DecodeFrom(chars, i + 4)

Base64Decode(chars) == Base64DecodeFrom(chars, 1)

\* text is the base64 encoding of the buffer: it decodes to the buffer's bytes.
IsBase64Of(text, buffer) ==
    /\ text.As % 4 = 0
    /\ Len(text.rest) % 4 = 0
    /\ 3 * (text.As \div 4) <= buffer.zeros
    /\ Base64Decode(text.rest)
          = [i \in 1..(buffer.zeros - 3 * (text.As \div 4)) |-> 0] \o buffer.tail

\* The fallback configuration is fully present: the flag is 'Yes', and bucket
\* and key are non-empty once white space is stripped.
FallbackConfigured ==
    /\ env.ENABLE_DEFAULT_FALLBACK_IMAGE = JSStr(Str_Yes)
    /\ env.DEFAULT_FALLBACK_IMAGE_BUCKET.type = "string"
    /\ ReplaceAllWhiteSpace(env.DEFAULT_FALLBACK_IMAGE_BUCKET.str) # <<>>
    /\ env.DEFAULT_FALLBACK_IMAGE_KEY.type = "string"
    /\ ReplaceAllWhiteSpace(env.DEFAULT_FALLBACK_IMAGE_KEY.str) # <<>>

\* The status an error carries, else 500.
StatusOr500(e) ==
    IF Get(e, "status").type # "undefined" THEN Get(e, "status") ELSE JSNum(500)

\* C4: with the fallback configuration fully present and the fallback object
\* retrievable, a failure of either handler's setup or process is answered with
\* the base64 encoding of the fallback object, isBase64Encoded true,
\* Cache-Control 'max-age=31536000,public', Content-Type and Last-Modified of
\* the fallback object, and the original error's status, else 500.
C4_FallbackImageAnswersFailure ==
    (pc = "ResponseSent" /\ err # NoObject /\ FallbackConfigured) =>
       /\ CallsFrom("handler")
             = << [from |-> "handler",
                   params |-> [Bucket |-> env.DEFAULT_FALLBACK_IMAGE_BUCKET,
                               Key |-> env.DEFAULT_FALLBACK_IMAGE_KEY]] >>
       /\ fallbackReply # NoReply
       /\ fallbackReply.ok =>
             /\ responses[1].isBase64Encoded = TRUE
             /\ IsBase64Of(responses[1].body, fallbackReply.val.Body)
             /\ Get(responses[1].headers, "Cache-Control") = JSStr(Str_DefaultCacheControl)
             /\ Get(responses[1].headers, "Content-Type") = fallbackReply.val.ContentType
             /\ Get(responses[1].headers, "Last-Modified") = fallbackReply.val.LastModified
             /\ responses[1].statusCode = StatusOr500(err)

\* A failure that carries a status has been answered with the fallback image.
C4_Witness ==
    /\ pc = "ResponseSent"
    /\ FallbackConfigured
    /\ fallbackReply.ok
    /\ Get(err, "status").type # "undefined"
    /\ responses[1].isBase64Encoded

\* The members {status, code, message} of an error's JSON serialization.
ErrorMembers(e) ==
    SelectSeq(<< <<"status", Get(e, "status")>>, <<"code", Get(e, "code")>>,
                 <<"message", Get(e, "message")>> >>,
              LAMBDA p : p[2].type # "undefined")

\* C5: a handler failure not answered with the fallback image is answered from
\* the original error: with its status and its JSON serialization
\* {status, code, message}, isBase64Encoded false, when it carries a status;
\* with status 500 and the generic body {message, code: 'InternalError',
\* status: 500} when it carries none; Content-Type is application/json, and an
\* error of the fallback fetch never replaces the original error.
C5_ErrorResponseFromOriginalError ==
    (pc = "ResponseSent" /\ err # NoObject /\ ~fallbackReply.ok) =>
       /\ Get(responses[1].headers, "Content-Type") = JSStr(Str_application_json)
       /\ responses[1].isBase64Encoded = FALSE
       /\ IF Get(err, "status").type # "undefined"
          THEN /\ responses[1].statusCode = Get(err, "status")
               /\ responses[1].body = ErrorMembers(err)
          ELSE /\ responses[1].statusCode = JSNum(500)
               /\ Len(responses[1].body) = 3
               /\ responses[1].body[1][1] = "message"
               /\ responses[1].body[2] = <<"code", JSStr(Str_InternalError)>>
               /\ responses[1].body[3] = <<"status", JSNum(500)>>

\* A failure that carries a status has been answered with its JSON
\* serialization after the fallback fetch failed.
C5_Witness ==
    /\ pc = "ResponseSent"
    /\ FallbackFetchFailed
    /\ Get(err, "status").type # "undefined"
    /\ ~responses[1].isBase64Encoded

\* The first entry of a comma-separated list: its longest prefix without ','.
FirstEntry(list) ==
    LET n == CHOOSE n \in 0..Len(list) :
                 /\ \A i \in 1..n : list[i] # 44
                 /\ (n = Len(list) \/ list[n + 1] = 44)
    IN  SubSeq(list, 1, n)

\* The synchronous part of a file request's setup has run.
SetupStarted == isFile /\ pc \notin {"Received", "FileSetup"}

\* C6: without SOURCE_BUCKETS every file request fails in setup with status 400
\* and code 'GetAllowedSourceBuckets::NoSourceBuckets', before any store access
\* has been made; with SOURCE_BUCKETS the bucket used is the first entry of the
\* comma-separated list after white-space removal.
C6_SourceBucketsResolveBucket ==
    /\ (SetupStarted /\ env.SOURCE_BUCKETS.type = "undefined") =>
          /\ err # NoObject
          /\ Get(err, "status") = JSNum(400)
          /\ Get(err, "code") = JSStr(Str_NoSourceBuckets)
          /\ pc \notin {"AwaitOriginalFile", "FileProcess"}
          /\ primaryReply = NoReply
          /\ CallsFrom("getOriginalFile") = <<>>
          /\ (pc = "Caught" => s3calls = <<>>)
    /\ (SetupStarted /\ env.SOURCE_BUCKETS.type = "string") =>
          /\ request.bucket
                = JSStr(FirstEntry(SelectSeq(env.SOURCE_BUCKETS.str,
                                             LAMBDA c : ~IsWhiteSpace(c))))
          /\ \A i \in DOMAIN s3calls :
                s3calls[i].from = "getOriginalFile" =>
                   s3calls[i].params.Bucket = request.bucket

\* Both halves happen: a file request has failed for the missing list with the
\* store untouched.
C6_Witness ==
    /\ pc = "Caught"
    /\ isFile
    /\ env.SOURCE_BUCKETS.type = "undefined"
    /\ Get(err, "code") = JSStr(Str_NoSourceBuckets)
    /\ s3calls = <<>>

\* t occurs in s as a contiguous run of characters.
Contains(s, t) ==
    \E i \in 0..(Len(s) - Len(t)) : \A j \in 1..Len(t) : s[i + j] = t[j]

\* C7: for an authorized file request, a NoSuchKey result of the primary fetch
\* makes setup fail with status 404 and any other store error with status 500,
\* both with the store's error code and a message containing the requested key;
\* a successful fetch records contentType from the object, cacheControl from
\* the object if present, else 'max-age=31536000,public', and stores the body
\* as originalFile.
C7_FetchOutcomeDeterminesSetup ==
    primaryReply # NoReply =>
       IF primaryReply.ok
       THEN /\ request.ContentType = primaryReply.val.ContentType
            /\ request.CacheControl
                  = IF primaryReply.val.CacheControl.type = "undefined"
                    THEN JSStr(Str_DefaultCacheControl)
                    ELSE primaryReply.val.CacheControl
            /\ request.originalFile = primaryReply.val.Body
            /\ pc # "Caught" \/ Get(err, "code") = JSStr(Str_TooLargeImageException)
       ELSE /\ pc \in {"Caught", "AwaitFallback", "ResponseSent"}
            /\ Get(err, "status")
                  = IF Get(primaryReply.err, "code") = JSStr(Str_NoSuchKey)
                    THEN JSNum(404) ELSE JSNum(500)
            /\ Get(err, "code") = Get(primaryReply.err, "code")
            /\ Get(err, "message").type = "string"
            /\ Contains(Get(err, "message").str, request.key.str)

\* The store has answered NoSuchKey and setup has failed with it.
C7_Witness ==
    /\ pc = "Caught"
    /\ primaryReply # NoReply
    /\ ~primaryReply.ok
    /\ Get(primaryReply.err, "code") = JSStr(Str_NoSuchKey)
    /\ Get(err, "status") = JSNum(404)

\* The number of bytes of a buffer, and of characters of their base64 encoding.
ByteLength(buffer) == buffer.zeros + Len(buffer.tail)

EncodedLength(buffer) == 4 * ((ByteLength(buffer) + 2) \div 3)

\* process has run on the fetched object.
Processed == isFile /\ primaryReply.ok /\ pc # "FileProcess"

\* C8: process fails with an error of numeric status 413 and code
\* 'TooLargeImageException' exactly when the base64 encoding of originalFile is
\* longer than 6 x 1024 x 1024 = 6291456 characters; otherwise it returns the
\* encoded text; the response for an oversized payload, no fallback image
\* configured, has statusCode 413.
C8_OversizedPayloadFailsWith413 ==
    Processed =>
       IF EncodedLength(request.originalFile) > 6291456
       THEN /\ Get(err, "status") = JSNum(413)
            /\ Get(err, "code") = JSStr(Str_TooLargeImageException)
            /\ (pc = "ResponseSent" /\ ~FallbackConfigured) =>
                  responses[1].statusCode = JSNum(413)
       ELSE /\ err = NoObject
            /\ pc = "ResponseSent"
            /\ IsBase64Of(responses[1].body, request.originalFile)

\* C10: at most one fetch of the primary object and at most one of the fallback
\* object are issued; the fallback fetch is issued only after the primary flow
\* has failed, never after a success, and only when the enable flag is 'Yes' and
\* bucket and key are non-empty after white-space stripping; otherwise no
\* fallback fetch is issued.
C10_SequentialStoreAccess ==
    /\ Len(CallsFrom("getOriginalFile")) <= 1
    /\ Len(CallsFrom("handler")) <= 1
    /\ \A i \in DOMAIN s3calls :
          s3calls[i].from = "handler" =>
             /\ i = Len(s3calls)
             /\ err # NoObject
             /\ FallbackConfigured
    /\ (pc = "ResponseSent" /\ err = NoObject) => CallsFrom("handler") = <<>>
    /\ (pc = "ResponseSent" /\ ~FallbackConfigured) => CallsFrom("handler") = <<>>

\* s with the first occurrence of t removed, if there is one.
RemoveFirst(s, t) ==
    LET at == {i \in 1..(Len(s) - Len(t) + 1) : SubSeq(s, i, i + Len(t) - 1) = t}
    IN  IF at = {} THEN s
        ELSE LET i == CHOOSE i \in at : \A j \in at : i <= j
             IN  SubSeq(s, 1, i - 1) \o SubSeq(s, i + Len(t), Len(s))

\* s without its leading slashes.
StripLeadingSlashes(s) ==
    LET n == CHOOSE n \in 0..Len(s) :
                 /\ \A i \in 1..n : s[i] = 47
                 /\ (n = Len(s) \/ s[n + 1] # 47)
    IN  SubSeq(s, n + 1, Len(s))

\* The key the claim gives a path: the percent-decoding of the path less the
\* first 'download/' and the leading slashes.
ClaimedKey(path) ==
    decodeURIComponent(StripLeadingSlashes(RemoveFirst(path, Str_download \o <<47>>)))

\* The comparison of setup's result with the claimed key.
KeyIs(claimed) ==
    IF claimed.ok
    THEN request.key = JSStr(claimed.val)
    ELSE /\ pc \in {"Caught", "AwaitFallback", "ResponseSent"}
         /\ Get(err, "status") = JSNum(404)
         /\ Get(err, "code") = JSStr(Str_CannotFindFile)

\* C9: the key resolved by setup is the percent-decoding of the path after
\* removing only the first occurrence of 'download/' and any leading slashes,
\* no other occurrence and no other character being removed; if the decoding
\* throws, setup fails with status 404 and code 'FileEdits::CannotFindFile'.
C9_KeyIsDecodedPathLessFirstToken ==
    (SetupStarted /\ env.SOURCE_BUCKETS.type = "string") =>
       \A claimed \in {ClaimedKey(event.path)} : KeyIs(claimed)
====
